---------------------------- MODULE Spec2Model ----------------------------
(***************************************************************************)
(* A model of backend/server.js of JSONPROMPTEE: the POST /api/convert     *)
(* handler, which turns a natural-language image prompt into a validated   *)
(* JSON object by way of an external language-model provider, and its      *)
(* helpers sanitizeInput, extractJSON and the compiled schema validator.   *)
(*                                                                         *)
(* JavaScript strings are sequences of one-character strings (code         *)
(* units), indexed from 1 here and from 0 in the source.  JavaScript       *)
(* values are records tagged by k; an object is the sequence of its        *)
(* members in insertion order.                                             *)
(***************************************************************************)
EXTENDS Integers, Sequences, FiniteSets, TLC

VARIABLES
    \* the server and the requests it handles
    OPENAI_KEY,     \* the provider credential, read at startup (line 26)
    validateErrors, \* validateJSON.errors, shared by all requests
    pc,             \* where each handler is: "off", "idle", "fetch", "text",
                    \* "json" (awaiting fetch, text(), json()) or "done"
    reqBody,        \* req.body of each request
    enginePrefOf,   \* its enginePref
    userPromptOf,   \* its userPrompt
    providerReply,  \* what the provider has answered to it so far
    outputObjOf,    \* its outputObj as JSON.parse returned it
    response,       \* the response sent to it
    providerCalls,  \* the number of provider calls (fetch) made for it
    \* the extraction scanner called on its own
    text,           \* the argument of extractJSON
    result,         \* what extractJSON returned
    spc,            \* "input" while the argument is put together, "done"
                    \* after the call, "off" when there is none
    pre,            \* the text before the embedded object
    obj,            \* the embedded object (a JavaScript value)
    sep,            \* the text after the embedded object
    second,         \* a second object after sep, or Undefined
    post,           \* the text after the second object
    \* sanitizeInput called on its own
    sanIn,          \* the argument of sanitizeInput
    sanOut,         \* the text it returned
    sanPc           \* "input" before the call, "done" after it, "off" when
                    \* there is none

pipeVars == <<OPENAI_KEY, validateErrors, pc, reqBody, enginePrefOf,
              userPromptOf, providerReply, outputObjOf, response,
              providerCalls>>
scanVars == <<text, result, spc, pre, obj, sep, second, post>>
sanVars == <<sanIn, sanOut, sanPc>>
vars == <<pipeVars, scanVars, sanVars>>

(***************************************************************************)
(* Characters                                                              *)
(***************************************************************************)
LBRACE == "{"
RBRACE == "}"
QUOTE  == "\""
BSLASH == "\\"
SPACE  == " "

(***************************************************************************)
(* JavaScript values                                                       *)
(***************************************************************************)
Undefined == [k |-> "undefined"]
Null      == [k |-> "null"]
Bool(b)   == [k |-> "boolean", b |-> b]
Num(n)    == [k |-> "number", n |-> n]
Str(s)    == [k |-> "string", s |-> s]
Obj(m)    == [k |-> "object", m |-> m]
Arr(e)    == [k |-> "array", e |-> e]
Member(key, val) == [key |-> key, val |-> val]

(***************************************************************************)
(* extractJSON (server.js 193-211)                                         *)
(***************************************************************************)
\* the null that extractJSON returns, and a returned substring
NotFound == [found |-> FALSE, s |-> <<>>]
Found(s) == [found |-> TRUE, s |-> s]

\* text.indexOf(ch): the first position of ch (1-based), 0 for JavaScript's -1
RECURSIVE indexFrom(_, _, _)
indexFrom(t, ch, i) ==
    IF i > Len(t) THEN 0
    ELSE IF t[i] = ch THEN i
    ELSE indexFrom(t, ch, i + 1)

indexOf(t, ch) == indexFrom(t, ch, 1)

\* text[i]: undefined outside the string
charAt(t, i) == IF i >= 1 /\ i <= Len(t) THEN t[i] ELSE "undefined"

\* the mutant of scanStep that counts braces inside strings too
scanStepNoStrings(t, i, st) ==
    LET ch == t[i]
    IN  [inString |-> FALSE,
         depth |-> IF ch = LBRACE THEN st.depth + 1
                   ELSE IF ch = RBRACE THEN st.depth - 1
                   ELSE st.depth]

\* the mutant of scanStep that toggles on every quote, escaped or not
scanStepNoEscape(t, i, st) ==
    LET ch == t[i]
        inS == IF ch = QUOTE THEN ~st.inString ELSE st.inString
    IN  [inString |-> inS,
         depth |-> IF inS THEN st.depth
                   ELSE IF ch = LBRACE THEN st.depth + 1
                   ELSE IF ch = RBRACE THEN st.depth - 1
                   ELSE st.depth]

\* the mutant of scanStep that counts the backslashes before a quote: the
\* quote is escaped when their number is odd
RECURSIVE backslashRun(_, _)
backslashRun(t, i) ==
    IF charAt(t, i) # BSLASH THEN 0 ELSE 1 + backslashRun(t, i - 1)

scanStepFullEscape(t, i, st) ==
    LET ch == t[i]
        inS == IF ch = QUOTE /\ backslashRun(t, i - 1) % 2 = 0
               THEN ~st.inString ELSE st.inString
    IN  [inString |-> inS,
         depth |-> IF inS THEN st.depth
                   ELSE IF ch = LBRACE THEN st.depth + 1
                   ELSE IF ch = RBRACE THEN st.depth - 1
                   ELSE st.depth]

\* the mutant of scanStep that counts a closing brace inside a string
scanStepCloseInString(t, i, st) ==
    LET ch == t[i]
        inS == IF ch = QUOTE /\ charAt(t, i - 1) # BSLASH
               THEN ~st.inString ELSE st.inString
    IN  [inString |-> inS,
         depth |-> IF ch = RBRACE THEN st.depth - 1
                   ELSE IF inS THEN st.depth
                   ELSE IF ch = LBRACE THEN st.depth + 1
                   ELSE st.depth]

\* one pass of the loop body (lines 200-204) at position i, from the loop
\* state st = [depth, inString]
scanStep(t, i, st) ==
    LET ch == t[i]
        inS == IF ch = QUOTE /\ charAt(t, i - 1) # BSLASH
               THEN ~st.inString ELSE st.inString
    IN  [inString |-> inS,
         depth |-> IF inS THEN st.depth
                   ELSE IF ch = LBRACE THEN st.depth + 1
                   ELSE IF ch = RBRACE THEN st.depth - 1
                   ELSE st.depth]

\* the mutant of scanLoop that returns what it has scanned when the text ends
RECURSIVE scanLoopPartial(_, _, _, _)
scanLoopPartial(t, start, i, st) ==
    IF i > Len(t) THEN Found(SubSeq(t, start, Len(t)))
    ELSE LET n == scanStep(t, i, st)
         IN  IF ~n.inString /\ n.depth = 0
             THEN Found(SubSeq(t, start, i))
             ELSE scanLoopPartial(t, start, i + 1, n)

\* the for loop (lines 199-209) from position i, and the return null after it
RECURSIVE scanLoop(_, _, _, _)
scanLoop(t, start, i, st) ==
    IF i > Len(t) THEN NotFound
    ELSE LET n == scanStep(t, i, st)
         IN  IF ~n.inString /\ n.depth = 0
             THEN Found(SubSeq(t, start, i))
             ELSE scanLoop(t, start, i + 1, n)

\* the mutant of extractJSON that returns through the last closing brace
RECURSIVE lastIndexFrom(_, _, _)
lastIndexFrom(t, ch, i) ==
    IF i < 1 THEN 0
    ELSE IF t[i] = ch THEN i
    ELSE lastIndexFrom(t, ch, i - 1)

extractJSONGreedy(t) ==
    LET start == indexOf(t, LBRACE)
        end == lastIndexFrom(t, RBRACE, Len(t))
    IN  IF start = 0 \/ end < start THEN NotFound
        ELSE Found(SubSeq(t, start, end))

extractJSON(t) ==
    LET start == indexOf(t, LBRACE)
    IN  IF start = 0 THEN NotFound
        ELSE scanLoop(t, start, start, [depth |-> 0, inString |-> FALSE])

(***************************************************************************)
(* The text of a JSON value, as JSON.stringify writes it: the provider's   *)
(* replies and the scanner's arguments are put together from it.           *)
(***************************************************************************)
RECURSIVE Concat(_)
Concat(ss) == IF ss = <<>> THEN <<>> ELSE Head(ss) \o Concat(Tail(ss))

RECURSIVE EscapeChars(_)
EscapeChars(s) ==
    IF s = <<>> THEN <<>>
    ELSE (IF Head(s) \in {QUOTE, BSLASH} THEN <<BSLASH, Head(s)>> ELSE <<Head(s)>>)
         \o EscapeChars(Tail(s))

StringLiteral(s) == <<QUOTE>> \o EscapeChars(s) \o <<QUOTE>>

DigitChars == <<"0", "1", "2", "3", "4", "5", "6", "7", "8", "9">>

RECURSIVE NumberText(_)
NumberText(n) ==
    IF n < 10 THEN <<DigitChars[n + 1]>>
    ELSE NumberText(n \div 10) \o <<DigitChars[(n % 10) + 1]>>

RECURSIVE JSONText(_)
RECURSIVE MembersText(_)
RECURSIVE ElementsText(_)
JSONText(v) ==
    CASE v.k = "null"    -> <<"n", "u", "l", "l">>
      [] v.k = "boolean" -> IF v.b THEN <<"t", "r", "u", "e">>
                            ELSE <<"f", "a", "l", "s", "e">>
      [] v.k = "number"  -> NumberText(v.n)
      [] v.k = "string"  -> StringLiteral(v.s)
      [] v.k = "array"   -> <<"[">> \o ElementsText(v.e) \o <<"]">>
      [] v.k = "object"  -> <<LBRACE>> \o MembersText(v.m) \o <<RBRACE>>

MembersText(m) ==
    IF m = <<>> THEN <<>>
    ELSE StringLiteral(m[1].key) \o <<":">> \o JSONText(m[1].val)
         \o (IF Len(m) > 1 THEN <<",">> \o MembersText(Tail(m)) ELSE <<>>)

ElementsText(e) ==
    IF e = <<>> THEN <<>>
    ELSE JSONText(e[1])
         \o (IF Len(e) > 1 THEN <<",">> \o ElementsText(Tail(e)) ELSE <<>>)


(***************************************************************************)
(* JSON.parse (called at server.js 168), for JSON texts of objects,        *)
(* arrays, strings with the escapes \" \\ \/, unsigned integers, null,      *)
(* true and false, with blanks between tokens.  A parse is                  *)
(* [ok, val, next]: next is the position after the value.                   *)
(***************************************************************************)
ParseFail == [ok |-> FALSE, val |-> Undefined, next |-> 0]
Parsed(v, n) == [ok |-> TRUE, val |-> v, next |-> n]

Blank == {SPACE, "\n"}
Digits == {"0", "1", "2", "3", "4", "5", "6", "7", "8", "9"}
DigitValue(ch) == CHOOSE d \in 0..9 : DigitChars[d + 1] = ch

RECURSIVE skipBlanks(_, _)
skipBlanks(t, i) ==
    IF i <= Len(t) /\ t[i] \in Blank THEN skipBlanks(t, i + 1) ELSE i

\* the characters of a string literal from position i (after the opening
\* quote), with acc the characters read so far
RECURSIVE ParseStringFrom(_, _, _)
ParseStringFrom(t, i, acc) ==
    IF i > Len(t) THEN ParseFail
    ELSE IF t[i] = QUOTE THEN Parsed(Str(acc), i + 1)
    ELSE IF t[i] = "\n" THEN ParseFail
    ELSE IF t[i] = BSLASH
         THEN IF i + 1 <= Len(t) /\ t[i + 1] \in {QUOTE, BSLASH, "/"}
              THEN ParseStringFrom(t, i + 2, Append(acc, t[i + 1]))
              ELSE ParseFail
    ELSE ParseStringFrom(t, i + 1, Append(acc, t[i]))

RECURSIVE ParseDigits(_, _, _)
ParseDigits(t, i, n) ==
    IF i <= Len(t) /\ t[i] \in Digits
    THEN ParseDigits(t, i + 1, 10 * n + DigitValue(t[i]))
    ELSE Parsed(Num(n), i)

ParseNumber(t, i) ==
    IF t[i] = "0" /\ i + 1 <= Len(t) /\ t[i + 1] \in Digits THEN ParseFail
    ELSE ParseDigits(t, i, 0)

ParseWord(t, i, word, v) ==
    IF i + Len(word) - 1 <= Len(t) /\ SubSeq(t, i, i + Len(word) - 1) = word
    THEN Parsed(v, i + Len(word))
    ELSE ParseFail

\* obj[key] = val on the member list m: a repeated key keeps its place
SetMember(m, key, val) ==
    IF \E j \in 1..Len(m) : m[j].key = key
    THEN [j \in 1..Len(m) |-> IF m[j].key = key THEN Member(key, val) ELSE m[j]]
    ELSE Append(m, Member(key, val))

RECURSIVE ParseValue(_, _)
RECURSIVE ParseMembers(_, _, _)
RECURSIVE ParseElements(_, _, _)
ParseValue(t, i) ==
    IF i > Len(t) THEN ParseFail
    ELSE CASE t[i] = QUOTE  -> ParseStringFrom(t, i + 1, <<>>)
           [] t[i] = LBRACE ->
                LET j == skipBlanks(t, i + 1)
                IN  IF j <= Len(t) /\ t[j] = RBRACE THEN Parsed(Obj(<<>>), j + 1)
                    ELSE ParseMembers(t, j, <<>>)
           [] t[i] = "["    ->
                LET j == skipBlanks(t, i + 1)
                IN  IF j <= Len(t) /\ t[j] = "]" THEN Parsed(Arr(<<>>), j + 1)
                    ELSE ParseElements(t, j, <<>>)
           [] t[i] \in Digits -> ParseNumber(t, i)
           [] t[i] = "n"    -> ParseWord(t, i, <<"n", "u", "l", "l">>, Null)
           [] t[i] = "t"    -> ParseWord(t, i, <<"t", "r", "u", "e">>, Bool(TRUE))
           [] t[i] = "f"    -> ParseWord(t, i, <<"f", "a", "l", "s", "e">>, Bool(FALSE))
           [] OTHER         -> ParseFail

\* the members of an object from position i (at a key), m the members so far
ParseMembers(t, i, m) ==
    IF i > Len(t) \/ t[i] # QUOTE THEN ParseFail
    ELSE LET key == ParseStringFrom(t, i + 1, <<>>)
             colon == IF key.ok THEN skipBlanks(t, key.next) ELSE 0
             val == IF key.ok /\ colon <= Len(t) /\ t[colon] = ":"
                    THEN ParseValue(t, skipBlanks(t, colon + 1))
                    ELSE ParseFail
             after == IF val.ok THEN skipBlanks(t, val.next) ELSE 0
         IN  IF ~val.ok \/ after > Len(t) THEN ParseFail
             ELSE IF t[after] = RBRACE
                  THEN Parsed(Obj(SetMember(m, key.val.s, val.val)), after + 1)
             ELSE IF t[after] = ","
                  THEN ParseMembers(t, skipBlanks(t, after + 1),
                                    SetMember(m, key.val.s, val.val))
             ELSE ParseFail

\* the elements of an array from position i, e the elements so far
ParseElements(t, i, e) ==
    LET val == ParseValue(t, i)
        after == IF val.ok THEN skipBlanks(t, val.next) ELSE 0
    IN  IF ~val.ok \/ after > Len(t) THEN ParseFail
        ELSE IF t[after] = "]" THEN Parsed(Arr(Append(e, val.val)), after + 1)
        ELSE IF t[after] = ","
             THEN ParseElements(t, skipBlanks(t, after + 1), Append(e, val.val))
        ELSE ParseFail

\* JSON.parse(t): [ok, val]; ok = FALSE is the SyntaxError it throws
ParseJSON(t) ==
    LET r == ParseValue(t, skipBlanks(t, 1))
    IN  IF r.ok /\ skipBlanks(t, r.next) > Len(t)
        THEN [ok |-> TRUE, val |-> r.val]
        ELSE [ok |-> FALSE, val |-> Undefined]



(***************************************************************************)
(* The strings the source names                                            *)
(***************************************************************************)
S_prompt == <<"p", "r", "o", "m", "p", "t">>
S_negative_prompt ==
    <<"n", "e", "g", "a", "t", "i", "v",
      "e", "_", "p", "r", "o", "m", "p", "t">>
S_style == <<"s", "t", "y", "l", "e">>
S_lighting == <<"l", "i", "g", "h", "t", "i", "n", "g">>
S_camera == <<"c", "a", "m", "e", "r", "a">>
S_details == <<"d", "e", "t", "a", "i", "l", "s">>
S_subject == <<"s", "u", "b", "j", "e", "c", "t">>
S_background == <<"b", "a", "c", "k", "g", "r", "o", "u", "n", "d">>
S_mood == <<"m", "o", "o", "d">>
S_colors == <<"c", "o", "l", "o", "r", "s">>
S_params == <<"p", "a", "r", "a", "m", "s">>
S_engine == <<"e", "n", "g", "i", "n", "e">>
S_resolution == <<"r", "e", "s", "o", "l", "u", "t", "i", "o", "n">>
S_cfg_scale == <<"c", "f", "g", "_", "s", "c", "a", "l", "e">>
S_steps == <<"s", "t", "e", "p", "s">>
S_sampler == <<"s", "a", "m", "p", "l", "e", "r">>
S_seed == <<"s", "e", "e", "d">>
S_choices == <<"c", "h", "o", "i", "c", "e", "s">>
S_message == <<"m", "e", "s", "s", "a", "g", "e">>
S_content == <<"c", "o", "n", "t", "e", "n", "t">>
S_text == <<"t", "e", "x", "t">>
S_stable == <<"s", "t", "a", "b", "l", "e">>

(***************************************************************************)
(* JavaScript's operators on values                                        *)
(***************************************************************************)
\* !!v
Truthy(v) ==
    CASE v.k \in {"undefined", "null"} -> FALSE
      [] v.k = "boolean" -> v.b
      [] v.k = "number"  -> v.n # 0
      [] v.k = "string"  -> v.s # <<>>
      [] OTHER           -> TRUE

\* a || b
OrElse(a, b) == IF Truthy(a) THEN a ELSE b

\* o[key] of a value that is neither undefined nor null: a member of an
\* object, undefined for what it does not hold
Get(o, key) ==
    IF o.k = "object" /\ \E j \in 1..Len(o.m) : o.m[j].key = key
    THEN o.m[CHOOSE j \in 1..Len(o.m) : o.m[j].key = key].val
    ELSE Undefined

\* o?.[key]
OptGet(o, key) == IF o.k \in {"undefined", "null"} THEN Undefined ELSE Get(o, key)

\* a?.[0]
OptFirst(a) ==
    IF a.k = "array" /\ a.e # <<>> THEN a.e[1] ELSE Undefined

(***************************************************************************)
(* sanitizeInput (server.js 65-70)                                         *)
(***************************************************************************)
MaxPromptLen == 800

WhiteSpace == {SPACE, "\n"}

RECURSIVE trimStart(_)
trimStart(s) ==
    IF s # <<>> /\ Head(s) \in WhiteSpace THEN trimStart(Tail(s)) ELSE s

RECURSIVE trimEnd(_)
trimEnd(s) ==
    IF s # <<>> /\ s[Len(s)] \in WhiteSpace
    THEN trimEnd(SubSeq(s, 1, Len(s) - 1)) ELSE s

\* text.trim()
trim(s) == trimEnd(trimStart(s))

\* s.slice(0, n)
sliceTo(s, n) == SubSeq(s, 1, IF Len(s) < n THEN Len(s) ELSE n)

\* the mutant of sanitizeInput that passes a text without trimming it
sanitizeInputNoTrim(v) ==
    IF ~Truthy(v) \/ v.k # "string" THEN <<>>
    ELSE sliceTo(v.s, MaxPromptLen)

\* the characters of the string returned
sanitizeInput(v) ==
    IF ~Truthy(v) \/ v.k # "string" THEN <<>>
    ELSE sliceTo(trim(v.s), MaxPromptLen)

(***************************************************************************)
(* jsonSchema (server.js 30-61).  A schema is [types, required,            *)
(* properties]; the properties are in the order the source lists them.     *)
(***************************************************************************)
TypeSchema(types) == [types |-> types, required |-> <<>>, properties |-> <<>>]
ObjectSchema(required, properties) ==
    [types |-> {"object"}, required |-> required, properties |-> properties]
Property(name, schema) == [name |-> name, schema |-> schema]

StringSchema == TypeSchema({"string"})
NumberSchema == TypeSchema({"number"})

detailsSchema ==
    ObjectSchema(<<S_subject>>,
                 <<Property(S_subject, StringSchema),
                   Property(S_background, StringSchema),
                   Property(S_mood, StringSchema),
                   Property(S_colors, StringSchema)>>)

paramsSchema ==
    ObjectSchema(<<>>,
                 <<Property(S_engine, StringSchema),
                   Property(S_resolution, StringSchema),
                   Property(S_cfg_scale, NumberSchema),
                   Property(S_steps, NumberSchema),
                   Property(S_sampler, StringSchema),
                   Property(S_seed, TypeSchema({"number", "null"}))>>)

\* the mutant of jsonSchema that requires nothing
jsonSchemaNoRequired ==
    ObjectSchema(<<>>,
                 <<Property(S_prompt, StringSchema),
                   Property(S_negative_prompt, StringSchema),
                   Property(S_style, StringSchema),
                   Property(S_lighting, StringSchema),
                   Property(S_camera, StringSchema),
                   Property(S_details, detailsSchema),
                   Property(S_params, paramsSchema)>>)

jsonSchema ==
    ObjectSchema(<<S_prompt, S_params>>,
                 <<Property(S_prompt, StringSchema),
                   Property(S_negative_prompt, StringSchema),
                   Property(S_style, StringSchema),
                   Property(S_lighting, StringSchema),
                   Property(S_camera, StringSchema),
                   Property(S_details, detailsSchema),
                   Property(S_params, paramsSchema)>>)

(***************************************************************************)
(* validateJSON = ajv.compile(jsonSchema) (server.js 29, 62).  Ajv is       *)
(* built with its default options: a validation stops at the first         *)
(* violation, so validateJSON.errors holds one error, or is null (here     *)
(* the empty list) after a success.  At an object Ajv checks the type,     *)
(* then required, then the properties in their order.                      *)
(***************************************************************************)
\* the JSON type Ajv sees
JSONType(v) == v.k

TypeError(path) ==
    [instancePath |-> path, keyword |-> "type", missingProperty |-> <<>>]
RequiredError(path, name) ==
    [instancePath |-> path, keyword |-> "required", missingProperty |-> name]

\* the first name of required (from position j) that data does not hold
RECURSIVE firstMissing(_, _, _)
firstMissing(required, data, j) ==
    IF j > Len(required) THEN 0
    ELSE IF Get(data, required[j]) = Undefined THEN j
    ELSE firstMissing(required, data, j + 1)

RECURSIVE validate(_, _, _)
RECURSIVE validateProperties(_, _, _, _)
\* the errors of data against schema: none, or the first one
validate(schema, data, path) ==
    IF JSONType(data) \notin schema.types THEN <<TypeError(path)>>
    ELSE IF data.k # "object" THEN <<>>
    ELSE LET j == firstMissing(schema.required, data, 1)
         IN  IF j > 0 THEN <<RequiredError(path, schema.required[j])>>
             ELSE validateProperties(schema.properties, data, path, 1)

validateProperties(properties, data, path, j) ==
    IF j > Len(properties) THEN <<>>
    ELSE LET p == properties[j]
             v == Get(data, p.name)
             errs == IF v = Undefined THEN <<>>
                     ELSE validate(p.schema, v, Append(path, p.name))
         IN  IF errs # <<>> THEN errs
             ELSE validateProperties(properties, data, path, j + 1)

\* validateJSON(data): the errors it leaves in validateJSON.errors
validateJSON(data) == validate(jsonSchema, data, <<>>)

(***************************************************************************)
(* The responses of POST /api/convert (server.js 109-190)                  *)
(***************************************************************************)
ErrEmptyPrompt == "Empty prompt"
ErrMisconfigured == "Server misconfigured: missing OPENAI API key"
ErrProvider == "AI provider error"
ErrNoResponse == "No response from AI provider"
ErrNoJSON == "AI did not return JSON"
\* the mutant of ErrInvalidJSON that repeats the text of ErrNoJSON
ErrInvalidJSONSame == "AI did not return JSON"
ErrInvalidJSON == "AI returned invalid JSON"
ErrValidation == "Generated JSON failed validation"
ErrServer == "Server error"

\* a response: the status and the fields of its JSON payload (Undefined, or
\* the empty list, for a field the payload does not hold)
Response(status, ok, error, detail, raw, details, res) ==
    [status |-> status, ok |-> ok, error |-> error, detail |-> detail,
     raw |-> raw, details |-> details, result |-> res]

NoResponse == Response(0, FALSE, "", Undefined, Undefined, <<>>, Undefined)
Failure(status, error) ==
    Response(status, FALSE, error, Undefined, Undefined, <<>>, Undefined)

\* the mutant of ServerError that passes the fault's message on
ServerErrorLeak ==
    Response(500, FALSE, ErrServer, Str(<<"e", "r", "r">>), Undefined, <<>>,
             Undefined)

\* the mutant of ServerError that reports a missing credential
ServerErrorMisconfigured == Failure(500, ErrMisconfigured)

\* the catch block (lines 186-189)
ServerError == Failure(500, ErrServer)

(***************************************************************************)
(* The handler, from one suspension point to the next.  Each part gives    *)
(* [next, resp, call, ...]: where the handler is afterwards ("fetch",       *)
(* "text" or "json" while it awaits the provider, "done" once it has        *)
(* responded), the response it sent, and the provider calls it made.        *)
(***************************************************************************)
Started(next, resp, call, enginePref, userPrompt) ==
    [next |-> next, resp |-> resp, call |-> call,
     enginePref |-> enginePref, userPrompt |-> userPrompt]

\* the mutant of handleRequest that checks the credential before the prompt
handleRequestKeyFirst(body, key) ==
    IF body = Undefined
    THEN Started("done", ServerError, 0, Undefined, <<>>)
    ELSE LET userPromptRaw == Get(body, S_prompt)
             enginePref == OrElse(Get(body, S_engine), Str(S_stable))
             userPrompt == sanitizeInput(userPromptRaw)
         IN  IF ~Truthy(key)
             THEN Started("done", Failure(500, ErrMisconfigured), 0,
                          enginePref, userPrompt)
             ELSE IF userPrompt = <<>>
             THEN Started("done", Failure(400, ErrEmptyPrompt), 0,
                          enginePref, userPrompt)
             ELSE Started("fetch", NoResponse, 1, enginePref, userPrompt)

\* the mutant of handleRequest that calls the provider without a credential
handleRequestNoKeyCheck(body, key) ==
    IF body = Undefined
    THEN Started("done", ServerError, 0, Undefined, <<>>)
    ELSE LET userPromptRaw == Get(body, S_prompt)
             enginePref == OrElse(Get(body, S_engine), Str(S_stable))
             userPrompt == sanitizeInput(userPromptRaw)
         IN  IF userPrompt = <<>>
             THEN Started("done", Failure(400, ErrEmptyPrompt), 0,
                          enginePref, userPrompt)
             ELSE Started("fetch", NoResponse, 1, enginePref, userPrompt)

\* lines 110-146: from the request to the call of the provider.  req.body
\* undefined makes req.body.prompt throw, which the catch block answers.
handleRequest(body, key) ==
    IF body = Undefined
    THEN Started("done", ServerError, 0, Undefined, <<>>)
    ELSE LET userPromptRaw == Get(body, S_prompt)
             enginePref == OrElse(Get(body, S_engine), Str(S_stable))
             userPrompt == sanitizeInput(userPromptRaw)
         IN  IF userPrompt = <<>>
             THEN Started("done", Failure(400, ErrEmptyPrompt), 0,
                          enginePref, userPrompt)
             ELSE IF ~Truthy(key)
             THEN Started("done", Failure(500, ErrMisconfigured), 0,
                          enginePref, userPrompt)
             ELSE Started("fetch", NoResponse, 1, enginePref, userPrompt)

Step(next, resp, call) == [next |-> next, resp |-> resp, call |-> call]

\* the mutant of afterFetch that calls the provider again after an error
afterFetchRetry(ok) ==
    IF ~ok THEN Step("fetch", NoResponse, 1) ELSE Step("json", NoResponse, 0)

\* lines 148-149 and 154: the provider's status decides what is awaited next
afterFetch(ok) ==
    IF ~ok THEN Step("text", NoResponse, 0) ELSE Step("json", NoResponse, 0)

\* the mutant of afterText without the return at line 150: the handler
\* answers 502 and goes on to await the body's JSON
afterTextNoReturn(txt) ==
    Step("json",
         Response(502, FALSE, ErrProvider, txt, Undefined, <<>>, Undefined),
         0)

\* lines 149-151: the provider's error text is passed on
afterText(txt) ==
    Step("done",
         Response(502, FALSE, ErrProvider, txt, Undefined, <<>>, Undefined),
         0)

\* the mutant of enforceEngine that keeps an engine the provider named
enforceEngineKeep(outputObj, enginePref) ==
    IF Get(Get(outputObj, S_params), S_engine) # Undefined THEN outputObj
    ELSE Obj(SetMember(outputObj.m, S_params,
                       Obj(SetMember(Get(outputObj, S_params).m,
                                     S_engine, enginePref))))

\* the mutant of enforceEngine that writes a new params object
enforceEngineFresh(outputObj, enginePref) ==
    Obj(SetMember(outputObj.m, S_params,
                  Obj(<<Member(S_engine, enginePref)>>)))

\* line 182: outputObj.params.engine = enginePref
enforceEngine(outputObj, enginePref) ==
    Obj(SetMember(outputObj.m, S_params,
                  Obj(SetMember(Get(outputObj, S_params).m,
                                S_engine, enginePref))))

\* line 156: the text of the first choice
rawTextOf(data) ==
    LET first == OptFirst(OptGet(data, S_choices))
    IN  OrElse(OptGet(OptGet(first, S_message), S_content),
               OptGet(first, S_text))

Finished(resp, parsed, errors) ==
    [next |-> "done", resp |-> resp, call |-> 0,
     parsed |-> parsed, errors |-> errors]

\* lines 174-185: validation, the engine override and the answer.  errors
\* is validateJSON.errors after the call.  Line 182 throws when
\* outputObj.params is undefined, which the catch block answers.
onOutputObj(outputObj, errors, enginePref) ==
    IF errors # <<>>
    THEN Finished(Response(502, FALSE, ErrValidation, Undefined, outputObj,
                           errors, Undefined),
                  outputObj, errors)
    ELSE IF ~Truthy(Get(outputObj, S_params))
    THEN Finished(ServerError, outputObj, errors)
    ELSE Finished(Response(200, TRUE, "", Undefined, Undefined, <<>>,
                           enforceEngine(outputObj, enginePref)),
                  outputObj, errors)

\* the mutant of onCandidate that answers without validating
onCandidateNoValidate(jsonCandidate, parse, enginePref, prevErrors) ==
    IF ~parse.ok
    THEN Finished(Response(502, FALSE, ErrInvalidJSON, Undefined,
                           Str(jsonCandidate), <<>>, Undefined),
                  Undefined, prevErrors)
    ELSE onOutputObj(parse.val, <<>>, enginePref)

\* the mutant of onCandidate that reports the violations validateJSON.errors
\* held before the call, when it held some
onCandidateStale(jsonCandidate, parse, enginePref, prevErrors) ==
    IF ~parse.ok
    THEN Finished(Response(502, FALSE, ErrInvalidJSON, Undefined,
                           Str(jsonCandidate), <<>>, Undefined),
                  Undefined, prevErrors)
    ELSE IF validateJSON(parse.val) # <<>> /\ prevErrors # <<>>
    THEN onOutputObj(parse.val, prevErrors, enginePref)
    ELSE onOutputObj(parse.val, validateJSON(parse.val), enginePref)

\* lines 165-172: JSON.parse of the candidate; parse is what it gave
onCandidate(jsonCandidate, parse, enginePref, prevErrors) ==
    IF ~parse.ok
    THEN Finished(Response(502, FALSE, ErrInvalidJSON, Undefined,
                           Str(jsonCandidate), <<>>, Undefined),
                  Undefined, prevErrors)
    ELSE onOutputObj(parse.val, validateJSON(parse.val), enginePref)

\* lines 159-163: the candidate extractJSON found in rawText, a string
onRawText(rawText, jsonCandidate, enginePref, prevErrors) ==
    IF ~jsonCandidate.found
    THEN Finished(Response(502, FALSE, ErrNoJSON, Undefined, rawText, <<>>,
                           Undefined),
                  Undefined, prevErrors)
    ELSE onCandidate(jsonCandidate.s, ParseJSON(jsonCandidate.s), enginePref,
                     prevErrors)

\* lines 154-185: from the provider's decoded body to the response.
\* prevErrors is validateJSON.errors as it was, kept when validateJSON is
\* not called.  extractJSON of a value that is not a string throws (it has
\* no indexOf), which the catch block answers.
afterJson(data, enginePref, prevErrors) ==
    IF ~Truthy(rawTextOf(data))
    THEN Finished(Failure(502, ErrNoResponse), Undefined, prevErrors)
    ELSE IF rawTextOf(data).k # "string"
    THEN Finished(ServerError, Undefined, prevErrors)
    ELSE onRawText(rawTextOf(data), extractJSON(rawTextOf(data).s),
                   enginePref, prevErrors)

(***************************************************************************)
(* The scanner on its own: its arguments                                   *)
(***************************************************************************)
\* the longest string inside an embedded object
MaxStrLen == 2
\* the longest text typed character by character
MaxTextLen == 7

Alphabet == {LBRACE, RBRACE, QUOTE, BSLASH, "a"}

RECURSIVE StringsOfLen(_, _)
StringsOfLen(S, n) ==
    IF n = 0 THEN {<<>>}
    ELSE {Append(t, c) : t \in StringsOfLen(S, n - 1), c \in S}

StringsUpTo(S, n) == UNION {StringsOfLen(S, j) : j \in 0..n}

Keys == StringsUpTo(Alphabet, 1)
StringVals == {Str(s) : s \in StringsUpTo(Alphabet, MaxStrLen)}
ShortStringVals == {Str(s) : s \in StringsUpTo(Alphabet, 1)}
NestedVals == {Obj(<<Member(<<"a">>, v)>>) : v \in ShortStringVals}

\* the embedded objects: empty, of one member, of two members
Docs ==
    {Obj(<<>>)}
    \cup {Obj(<<Member(key, v)>>) :
            key \in Keys, v \in StringVals \cup NestedVals \cup {Num(1), Null}}
    \cup {Obj(<<Member(<<"a">>, v), Member(<<"b">>, w)>>) :
            v \in StringVals, w \in ShortStringVals}

\* the texts around the objects: they hold no brace
Pres == {<<>>, <<"a", SPACE>>, <<QUOTE>>, <<BSLASH>>}
Seps == {<<>>, <<"a">>, <<QUOTE>>, <<SPACE, BSLASH>>}
Posts == {<<>>, <<"a">>, <<QUOTE>>}
Seconds == {Undefined,
            Obj(<<>>),
            Obj(<<Member(<<"b">>, Num(2))>>),
            Obj(<<Member(<<"b">>, Str(<<RBRACE>>))>>)}

TextOf(v) == IF v = Undefined THEN <<>> ELSE JSONText(v)
Embedded(p, o, s, o2, q) == p \o TextOf(o) \o s \o TextOf(o2) \o q

(***************************************************************************)
(* The handler's inputs: request bodies, the credential, and what the      *)
(* provider answers                                                        *)
(***************************************************************************)
\* the members among ms that have a value
Members(ms) == SelectSeq(ms, LAMBDA m : m.val # Undefined)

S_mid == <<"m", "i", "d">>
S_dalle == <<"d", "a", "l", "l", "e">>
S_fox == <<"f", "o", "x">>

PromptInputs ==
    {Undefined, Num(5), Str(<<>>), Str(<<SPACE>>), Str(<<"a">>),
     Str(<<SPACE, "a", SPACE>>)}
EngineInputs ==
    {Undefined, Null, Bool(FALSE), Num(0), Num(7), Str(<<>>), Str(S_mid),
     Str(S_stable)}

\* req.body: undefined when no body was parsed, else the object sent
Bodies ==
    {Undefined}
    \cup {Obj(Members(<<Member(S_prompt, p), Member(S_engine, e)>>)) :
            p \in PromptInputs, e \in EngineInputs}

\* OPENAI_KEY (line 26): undefined when the environment sets neither name
Credentials == {Undefined, Str(<<>>), Str(<<"k">>)}

ReplyPrompts == {Undefined, Num(5), Str(S_fox), Str(<<"a", BSLASH>>)}
ReplyStyles == {Undefined, Num(3)}
ReplyDetails ==
    {Undefined,
     Str(<<"d">>),
     Obj(<<>>),
     Obj(<<Member(S_background, Str(<<"b">>))>>),
     Obj(<<Member(S_subject, Str(S_fox))>>)}
ReplyParams ==
    {Undefined,
     Null,
     Str(<<"x">>),
     Obj(<<>>),
     Obj(<<Member(S_engine, Str(S_dalle))>>),
     Obj(<<Member(S_engine, Num(1))>>),
     Obj(<<Member(S_engine, Str(<<QUOTE, RBRACE>>)), Member(S_seed, Null)>>),
     Obj(<<Member(S_steps, Num(30)), Member(S_seed, Str(<<"s">>))>>)}

\* the objects the provider writes
ReplyObjects ==
    {Obj(Members(<<Member(S_prompt, p), Member(S_style, st),
                   Member(S_details, d), Member(S_params, pa)>>)) :
        p \in ReplyPrompts, st \in ReplyStyles,
        d \in ReplyDetails, pa \in ReplyParams}

\* what the provider writes around an object
Wrappers ==
    {[pre |-> <<>>, post |-> <<>>],
     [pre |-> <<"H", "i", ":", "\n">>, post |-> <<"\n", "o", "k">>]}

\* replies that hold no object, an unbalanced one, or one that is not JSON
OtherTexts ==
    {<<"n", "o">>,
     <<LBRACE, QUOTE, "a">>,
     <<LBRACE, "a", RBRACE>>,
     <<LBRACE, RBRACE, RBRACE>>}

ReplyTexts ==
    {w.pre \o JSONText(o) \o w.post : o \in ReplyObjects, w \in Wrappers}
    \cup OtherTexts

\* the provider's decoded body with content as the first choice's message
Completion(content) ==
    Obj(<<Member(S_choices,
                 Arr(<<Obj(<<Member(S_message,
                                    Obj(Members(<<Member(S_content, content)>>)))>>)>>))>>)

\* the provider's decoded bodies
Datas ==
    {Completion(Str(t)) : t \in ReplyTexts}
    \cup {Completion(Str(<<>>)), Completion(Null), Completion(Undefined),
          Completion(Num(5)),
          Null,
          Obj(<<>>),
          Obj(<<Member(S_choices, Arr(<<>>))>>),
          Obj(<<Member(S_choices,
                       Arr(<<Obj(<<Member(S_text, Str(<<LBRACE, RBRACE>>))>>)>>))>>)}

\* the bodies and the replies of two requests in flight
PairBodies ==
    {Obj(<<Member(S_prompt, Str(<<SPACE>>))>>),
     Obj(<<Member(S_prompt, Str(<<"a">>))>>),
     Obj(<<Member(S_prompt, Str(<<"a">>)), Member(S_engine, Str(S_mid))>>)}
PairDatas ==
    {Completion(Str(JSONText(o))) :
        o \in {Obj(<<>>),
               Obj(<<Member(S_prompt, Str(S_fox))>>),
               Obj(<<Member(S_prompt, Num(5)),
                     Member(S_params, Obj(<<>>))>>),
               Obj(<<Member(S_prompt, Str(S_fox)),
                     Member(S_params,
                            Obj(<<Member(S_engine, Str(S_dalle))>>))>>)}}
    \cup {Completion(Str(<<"n", "o">>)), Completion(Null)}

\* the provider's error texts
ErrorTexts == {Str(<<>>), Str(<<"e", "r", "r">>)}

(***************************************************************************)
(* sanitizeInput on its own: its arguments.  A text is white space, a      *)
(* word, white space, a word and white space; the first word is short, or  *)
(* as long as the cap, a little less or a little more.                     *)
(***************************************************************************)
\* the longest run of white space
MaxPad == 2
\* the longest second word
MaxTail == 2

Pad(n) == [i \in 1..n |-> IF i % 2 = 1 THEN SPACE ELSE "\n"]
Word(n, c) == [i \in 1..n |-> c]

WordLengths == {0, 1} \cup ((MaxPromptLen - 3)..(MaxPromptLen + 1))

SanTexts ==
    {Pad(l) \o Word(n, "a") \o Pad(g) \o Word(m, "b") \o Pad(t) :
        l \in 0..MaxPad, n \in WordLengths, g \in 0..MaxPad,
        m \in 0..MaxTail, t \in 0..MaxPad}

SanInputs ==
    {Undefined, Null, Bool(TRUE), Num(0), Num(5), Obj(<<>>),
     Arr(<<Str(<<"a">>)>>)}
    \cup {Str(t) : t \in SanTexts}

(***************************************************************************)
(* The state machine                                                       *)
(***************************************************************************)
\* the requests handled: r1, and r2 when two requests are in flight
Reqs == {"r1", "r2"}

\* what the provider has answered: st is "none", "status" (fetch resolved),
\* "text", "data" (the body was read) or "failed" (an await rejected, at
\* the await named by at)
NoReply ==
    [st |-> "none", ok |-> FALSE, txt |-> Undefined, data |-> Undefined,
     at |-> "none"]

\* no request is handled
PipeOff ==
    /\ OPENAI_KEY = Undefined
    /\ validateErrors = <<>>
    /\ pc = [r \in Reqs |-> "off"]
    /\ reqBody = [r \in Reqs |-> Undefined]
    /\ enginePrefOf = [r \in Reqs |-> Undefined]
    /\ userPromptOf = [r \in Reqs |-> <<>>]
    /\ providerReply = [r \in Reqs |-> NoReply]
    /\ outputObjOf = [r \in Reqs |-> Undefined]
    /\ response = [r \in Reqs |-> NoResponse]
    /\ providerCalls = [r \in Reqs |-> 0]

\* extractJSON is not called on its own
ScanOff ==
    /\ pre = <<>>
    /\ obj = Undefined
    /\ sep = <<>>
    /\ second = Undefined
    /\ post = <<>>
    /\ text = <<>>
    /\ result = NotFound
    /\ spc = "off"

\* sanitizeInput is not called on its own
SanOff ==
    /\ sanIn = Undefined
    /\ sanOut = <<>>
    /\ sanPc = "off"

\* the server has started, with or without a credential; one request is
\* about to arrive
Init ==
    /\ OPENAI_KEY \in Credentials
    /\ validateErrors = <<>>
    /\ pc = [r \in Reqs |-> IF r = "r1" THEN "idle" ELSE "off"]
    /\ reqBody = [r \in Reqs |-> Undefined]
    /\ enginePrefOf = [r \in Reqs |-> Undefined]
    /\ userPromptOf = [r \in Reqs |-> <<>>]
    /\ providerReply = [r \in Reqs |-> NoReply]
    /\ outputObjOf = [r \in Reqs |-> Undefined]
    /\ response = [r \in Reqs |-> NoResponse]
    /\ providerCalls = [r \in Reqs |-> 0]
    /\ ScanOff
    /\ SanOff

\* the server has started and two requests are about to arrive; their
\* handlers interleave at the awaits
InitTwo ==
    /\ OPENAI_KEY \in Credentials
    /\ validateErrors = <<>>
    /\ pc = [r \in Reqs |-> "idle"]
    /\ reqBody = [r \in Reqs |-> Undefined]
    /\ enginePrefOf = [r \in Reqs |-> Undefined]
    /\ userPromptOf = [r \in Reqs |-> <<>>]
    /\ providerReply = [r \in Reqs |-> NoReply]
    /\ outputObjOf = [r \in Reqs |-> Undefined]
    /\ response = [r \in Reqs |-> NoResponse]
    /\ providerCalls = [r \in Reqs |-> 0]
    /\ ScanOff
    /\ SanOff

\* the requests in flight, and what they and the provider may send: every
\* body and reply for one request, a few of each for two
Active == {r \in Reqs : pc[r] # "off"}
BodiesNow == IF Cardinality(Active) = 1 THEN Bodies ELSE PairBodies
DatasNow == IF Cardinality(Active) = 1 THEN Datas ELSE PairDatas

\* extractJSON is about to be called on an object embedded in text
InitDoc ==
    /\ pre \in Pres
    /\ obj \in Docs
    /\ sep \in Seps
    /\ second \in Seconds
    /\ post \in Posts
    /\ text = Embedded(pre, obj, sep, second, post)
    /\ result = NotFound
    /\ spc = "input"
    /\ PipeOff
    /\ SanOff

\* extractJSON is about to be called on a text typed character by character
InitScan ==
    /\ pre = <<>>
    /\ obj = Undefined
    /\ sep = <<>>
    /\ second = Undefined
    /\ post = <<>>
    /\ text = <<>>
    /\ result = NotFound
    /\ spc = "input"
    /\ PipeOff
    /\ SanOff

\* sanitizeInput is about to be called
InitSan ==
    /\ sanIn \in SanInputs
    /\ sanOut = <<>>
    /\ sanPc = "input"
    /\ PipeOff
    /\ ScanOff

\* the call sanitizeInput(sanIn)
CallSanitize ==
    /\ sanPc = "input"
    /\ sanOut' = sanitizeInput(sanIn)
    /\ sanPc' = "done"
    /\ UNCHANGED sanIn
    /\ UNCHANGED <<pipeVars, scanVars>>

\* one more character of the argument
TypeChar(c) ==
    /\ spc = "input"
    /\ Len(text) < MaxTextLen
    /\ text' = Append(text, c)
    /\ UNCHANGED <<result, spc, pre, obj, sep, second, post>>
    /\ UNCHANGED <<pipeVars, sanVars>>

\* the call extractJSON(text)
CallExtract ==
    /\ spc = "input"
    /\ result' = extractJSON(text)
    /\ spc' = "done"
    /\ UNCHANGED <<text, pre, obj, sep, second, post>>
    /\ UNCHANGED <<pipeVars, sanVars>>

\* a request arrives and is handled up to the provider call (lines 110-146)
Receive(r) ==
    /\ pc[r] = "idle"
    /\ \E b \in BodiesNow :
        /\ LET h == handleRequest(b, OPENAI_KEY)
           IN  /\ pc' = [pc EXCEPT ![r] = h.next]
               /\ response' = [response EXCEPT ![r] = h.resp]
               /\ providerCalls' = [providerCalls EXCEPT ![r] = @ + h.call]
               /\ enginePrefOf' = [enginePrefOf EXCEPT ![r] = h.enginePref]
               /\ userPromptOf' = [userPromptOf EXCEPT ![r] = h.userPrompt]
        /\ reqBody' = [reqBody EXCEPT ![r] = b]
        /\ UNCHANGED <<OPENAI_KEY, validateErrors, providerReply, outputObjOf>>
        /\ UNCHANGED <<scanVars, sanVars>>

\* fetch resolves with the provider's status (lines 131-154)
FetchResolves(r) ==
    /\ pc[r] = "fetch"
    /\ \E ok \in BOOLEAN :
        /\ LET h == afterFetch(ok)
           IN  /\ pc' = [pc EXCEPT ![r] = h.next]
               /\ response' = [response EXCEPT ![r] = h.resp]
               /\ providerCalls' = [providerCalls EXCEPT ![r] = @ + h.call]
        /\ providerReply' =
               [providerReply EXCEPT ![r] = [@ EXCEPT !.st = "status", !.ok = ok]]
        /\ UNCHANGED <<OPENAI_KEY, validateErrors, reqBody, enginePrefOf,
                       userPromptOf, outputObjOf>>
        /\ UNCHANGED <<scanVars, sanVars>>

\* a promise the handler awaits rejects: fetch (the provider cannot be
\* reached), openaiRes.text() or openaiRes.json() (the body cannot be read
\* or decoded); the catch block answers (lines 186-189)
AwaitRejects(r) ==
    /\ pc[r] \in {"fetch", "text", "json"}
    /\ pc' = [pc EXCEPT ![r] = "done"]
    /\ response' = [response EXCEPT ![r] = ServerError]
    /\ providerReply' =
           [providerReply EXCEPT ![r] = [@ EXCEPT !.st = "failed", !.at = pc[r]]]
    /\ UNCHANGED <<OPENAI_KEY, validateErrors, reqBody, enginePrefOf,
                   userPromptOf, outputObjOf, providerCalls>>
    /\ UNCHANGED <<scanVars, sanVars>>

\* openaiRes.text() resolves (lines 149-151)
TextResolves(r) ==
    /\ pc[r] = "text"
    /\ \E txt \in ErrorTexts :
        /\ LET h == afterText(txt)
           IN  /\ pc' = [pc EXCEPT ![r] = h.next]
               /\ response' = [response EXCEPT ![r] = h.resp]
               /\ providerCalls' = [providerCalls EXCEPT ![r] = @ + h.call]
        /\ providerReply' =
               [providerReply EXCEPT ![r] = [@ EXCEPT !.st = "text", !.txt = txt]]
        /\ UNCHANGED <<OPENAI_KEY, validateErrors, reqBody, enginePrefOf,
                       userPromptOf, outputObjOf>>
        /\ UNCHANGED <<scanVars, sanVars>>

\* openaiRes.json() resolves (lines 154-185)
JsonResolves(r) ==
    /\ pc[r] = "json"
    /\ \E data \in DatasNow :
        /\ LET h == afterJson(data, enginePrefOf[r], validateErrors)
           IN  /\ pc' = [pc EXCEPT ![r] = h.next]
               /\ response' = [response EXCEPT ![r] = h.resp]
               /\ providerCalls' = [providerCalls EXCEPT ![r] = @ + h.call]
               /\ outputObjOf' = [outputObjOf EXCEPT ![r] = h.parsed]
               /\ validateErrors' = h.errors
        /\ providerReply' =
               [providerReply EXCEPT ![r] = [@ EXCEPT !.st = "data", !.data = data]]
        /\ UNCHANGED <<OPENAI_KEY, reqBody, enginePrefOf, userPromptOf>>
        /\ UNCHANGED <<scanVars, sanVars>>

Next ==
    \E r \in Reqs :
        \/ Receive(r)
        \/ FetchResolves(r)
        \/ AwaitRejects(r)
        \/ TextResolves(r)
        \/ JsonResolves(r)

NextDoc == CallExtract
NextSan == CallSanitize
NextScan == CallExtract \/ \E c \in Alphabet : TypeChar(c)

Spec == Init /\ [][Next]_vars
SpecTwo == InitTwo /\ [][Next]_vars
SpecDoc == InitDoc /\ [][NextDoc]_vars
SpecScan == InitScan /\ [][NextScan]_vars

\* the promise a handler awaits settles: it resolves or it rejects
Settles(r) ==
    FetchResolves(r) \/ TextResolves(r) \/ JsonResolves(r) \/ AwaitRejects(r)

\* two requests in flight with a provider whose calls and bodies eventually
\* settle; the steps between two awaits run to completion on the event loop
SpecLive == InitTwo /\ [][Next]_vars /\ \A r \in Reqs : WF_vars(Settles(r))
SpecSan == InitSan /\ [][NextSan]_vars
(***************************************************************************)
(* What the claims on the scanner are stated with                          *)
(***************************************************************************)
BraceFree(t) == \A i \in 1..Len(t) : t[i] \notin {LBRACE, RBRACE}

\* every string of a value: the keys and the string values, at any depth
RECURSIVE StringsIn(_)
StringsIn(v) ==
    CASE v.k = "string" -> {v.s}
      [] v.k = "object" ->
            UNION {{v.m[j].key} \cup StringsIn(v.m[j].val) : j \in 1..Len(v.m)}
      [] v.k = "array"  -> UNION {StringsIn(v.e[j]) : j \in 1..Len(v.e)}
      [] OTHER          -> {}

HasBraceInString(v) ==
    \E s \in StringsIn(v) : \E i \in 1..Len(s) : s[i] \in {LBRACE, RBRACE}

HasEscapeInString(v) ==
    \E s \in StringsIn(v) : \E i \in 1..Len(s) : s[i] \in {QUOTE, BSLASH}

\* a string ends with a backslash: in the JSON text its closing quote comes
\* right after a backslash (the second one of the escape \\)
ClosingQuoteAfterBackslash(v) ==
    \E s \in StringsIn(v) : s # <<>> /\ s[Len(s)] = BSLASH

\* the JSON lexer's state after the first i characters of a JSON text:
\* "out" of a string, "in" a string, or "esc" after a backslash in a string
RECURSIVE LexAfter(_, _)
LexAfter(t, i) ==
    IF i = 0 THEN "out"
    ELSE LET p == LexAfter(t, i - 1)
         IN  CASE p = "out" -> IF t[i] = QUOTE THEN "in" ELSE "out"
               [] p = "in"  -> IF t[i] = QUOTE THEN "out"
                               ELSE IF t[i] = BSLASH THEN "esc" ELSE "in"
               [] p = "esc" -> "in"

BraceInStringAt(t, i) == t[i] \in {LBRACE, RBRACE} /\ LexAfter(t, i - 1) = "in"

\* the loop state of extractJSON after the passes at start..i
RECURSIVE stateAfter(_, _, _)
stateAfter(t, start, i) ==
    IF i < start THEN [depth |-> 0, inString |-> FALSE]
    ELSE scanStep(t, i, stateAfter(t, start, i - 1))

\* the first position of ch in t, 0 when there is none
FirstOf(t, ch) ==
    IF \E k \in 1..Len(t) : t[k] = ch
    THEN CHOOSE k \in 1..Len(t) : t[k] = ch /\ \A j \in 1..(k - 1) : t[j] # ch
    ELSE 0

\* the scan's depth after position j, counted from the text: the braces from
\* start to j that follow an even number of toggling quotes
TogglesAt(t, k) == t[k] = QUOTE /\ (k = 1 \/ t[k - 1] # BSLASH)
InStringAt(t, start, j) ==
    Cardinality({k \in start..j : TogglesAt(t, k)}) % 2 = 1
DepthAt(t, start, j) ==
    Cardinality({k \in start..j : t[k] = LBRACE /\ ~InStringAt(t, start, k)})
    - Cardinality({k \in start..j : t[k] = RBRACE /\ ~InStringAt(t, start, k)})

ScanDone == spc = "done"
OneObject == ScanDone /\ obj # Undefined /\ second = Undefined
TwoObjects == ScanDone /\ obj # Undefined /\ second # Undefined
WholeObject == result = Found(JSONText(obj))

(***************************************************************************)
(* C1 as stated: for every text holding exactly one well-formed JSON       *)
(* object, whatever escapes its strings hold, between texts without        *)
(* braces, extractJSON returns exactly the text of that object.            *)
(***************************************************************************)
C1_AnyEscape ==
    (OneObject /\ BraceFree(pre) /\ BraceFree(sep \o post)) => WholeObject

(***************************************************************************)
(* C1 as amended: the same, for the objects none of whose strings (keys    *)
(* and values) ends with a backslash, that is, whose text has no closing   *)
(* quote right after a backslash.                                          *)
(***************************************************************************)
C1_ExtractionCorrect ==
    (/\ OneObject
     /\ BraceFree(pre)
     /\ BraceFree(sep \o post)
     /\ ~ClosingQuoteAfterBackslash(obj)) => WholeObject

\* C1's case: an object with escapes in its strings, text before and after it
C1_Witness ==
    /\ OneObject
    /\ pre # <<>>
    /\ sep \o post # <<>>
    /\ HasEscapeInString(obj)
    /\ ~ClosingQuoteAfterBackslash(obj)
    /\ WholeObject

(***************************************************************************)
(* C3 as stated: for every text holding two balanced objects separated by  *)
(* text, extractJSON returns the first one and nothing after its closing   *)
(* brace.                                                                  *)
(***************************************************************************)
C3_AnyFirstObject ==
    (TwoObjects /\ sep # <<>>) => WholeObject

(***************************************************************************)
(* C3 as amended: the same, when no string of the first object ends with   *)
(* a backslash.                                                            *)
(***************************************************************************)
C3_FirstMatch ==
    (TwoObjects /\ ~ClosingQuoteAfterBackslash(obj)) => WholeObject

\* C3's case: two objects with text between them, the first one returned
C3_Witness ==
    /\ TwoObjects
    /\ sep # <<>>
    /\ second # Obj(<<>>)
    /\ obj # Obj(<<>>)
    /\ WholeObject

\* no brace inside a string of the embedded object moves the scan's depth
DepthUnmoved ==
    LET o == JSONText(obj)
        start == Len(pre) + 1
    IN  \A i \in 1..Len(o) :
            BraceInStringAt(o, i) =>
                stateAfter(text, start, start + i - 1).depth
                    = stateAfter(text, start, start + i - 2).depth

(***************************************************************************)
(* C4 as stated: while extractJSON scans an object whose quoting is        *)
(* well-formed, a brace inside a string never changes depth, and the       *)
(* whole object is returned, not cut short at a brace inside a string.     *)
(***************************************************************************)
C4_AnyQuoting ==
    (ScanDone /\ obj # Undefined /\ HasBraceInString(obj))
        => (DepthUnmoved /\ WholeObject)

(***************************************************************************)
(* C4 as amended: the same, when no string of the object ends with a       *)
(* backslash.                                                              *)
(***************************************************************************)
C4_StringBraceImmunity ==
    (/\ ScanDone
     /\ obj # Undefined
     /\ HasBraceInString(obj)
     /\ ~ClosingQuoteAfterBackslash(obj)) => (DepthUnmoved /\ WholeObject)

\* C4's case: a closing brace inside a string value, the whole object returned
C4_Witness ==
    /\ ScanDone
    /\ obj # Undefined
    /\ \E s \in StringsIn(obj) : \E i \in 1..Len(s) : s[i] = RBRACE
    /\ ~ClosingQuoteAfterBackslash(obj)
    /\ DepthUnmoved
    /\ WholeObject

(***************************************************************************)
(* C5: for every text without an opening brace, or whose first opening     *)
(* brace is never balanced (the depth does not return to 0: for one, no    *)
(* closing brace follows it), extractJSON returns null, never a partial    *)
(* substring.                                                              *)
(***************************************************************************)
C5_NoMatchSignal ==
    ScanDone =>
        LET start == FirstOf(text, LBRACE)
        IN  /\ start = 0 => result = NotFound
            /\ (start > 0 /\ \A j \in start..Len(text) : text[j] # RBRACE)
                   => result = NotFound
            /\ (start > 0 /\ \A j \in start..Len(text) : DepthAt(text, start, j) # 0)
                   => result = NotFound

\* C5's case: an opening brace, closing braces only inside a string, null
C5_Witness ==
    /\ ScanDone
    /\ FirstOf(text, LBRACE) > 0
    /\ \E j \in FirstOf(text, LBRACE)..Len(text) : text[j] = RBRACE
    /\ \A j \in FirstOf(text, LBRACE)..Len(text) :
           DepthAt(text, FirstOf(text, LBRACE), j) # 0
    /\ result = NotFound

(***************************************************************************)
(* What the claims on the handler are stated with                          *)
(***************************************************************************)
\* the request has been answered
Responded(r) == pc[r] = "done"

\* the request ended in Completed: 200 with {ok: true, result}
Completed(r) ==
    Responded(r) /\ response[r].status = 200 /\ response[r].ok

\* the request ended in the failure of that status and error text
FailedWith(r, status, error) ==
    /\ Responded(r)
    /\ response[r].status = status
    /\ response[r].error = error
    /\ ~response[r].ok
    /\ response[r].result = Undefined

\* params.engine of an object
EngineOf(o) == Get(Get(o, S_params), S_engine)

\* the engine value the request gave
GivenEngine(r) == Get(reqBody[r], S_engine)

\* the values JavaScript takes for false in a condition
Falsy == {Undefined, Null, Bool(FALSE), Num(0), Str(<<>>)}

(***************************************************************************)
(* C2 as stated: in every request that ends in Completed,                  *)
(* result.params.engine is the request's engine value, or "stable" when    *)
(* the request gives none (no engine member, or null), whatever the        *)
(* provider's JSON carried for params.engine.                              *)
(***************************************************************************)
C2_GivenOrStable ==
    \A r \in Reqs :
        Completed(r) =>
            EngineOf(response[r].result)
                = IF GivenEngine(r) \in {Undefined, Null}
                  THEN Str(S_stable) ELSE GivenEngine(r)

(***************************************************************************)
(* C2 as amended: in every request that ends in Completed,                 *)
(* result.params.engine is the request's engine value when that value is   *)
(* truthy, and "stable" when it is absent or falsy (null, false, 0 or the  *)
(* empty string), whatever the provider's JSON carried for params.engine.  *)
(***************************************************************************)
C2_EngineOverride ==
    \A r \in Reqs :
        Completed(r) =>
            EngineOf(response[r].result)
                = IF GivenEngine(r) \in Falsy
                  THEN Str(S_stable) ELSE GivenEngine(r)

\* C2's case: the provider named another engine than the request did, and
\* the result carries the request's
C2_Witness ==
    \E r \in Reqs :
        /\ Completed(r)
        /\ GivenEngine(r) = Str(S_mid)
        /\ EngineOf(outputObjOf[r]) = Str(S_dalle)
        /\ EngineOf(response[r].result) = Str(S_mid)

\* the required fields a parsed object lacks: prompt, params, and subject
\* in a details object
MissingFields(o) ==
    {f \in {S_prompt, S_params} : Get(o, f) = Undefined}
    \cup (IF /\ Get(o, S_details).k = "object"
             /\ Get(Get(o, S_details), S_subject) = Undefined
          THEN {S_subject} ELSE {})

\* the field in an object
FieldOf(o, f) ==
    IF f = S_subject THEN Get(Get(o, S_details), S_subject) ELSE Get(o, f)

\* the violations reported name the field
Names(errors, f) ==
    \E j \in 1..Len(errors) :
        errors[j].keyword = "required" /\ errors[j].missingProperty = f

\* the request ended in Failed(SchemaViolation), the parsed object returned
\* as it was parsed
SchemaViolation(r) ==
    /\ FailedWith(r, 502, "Generated JSON failed validation")
    /\ response[r].details # <<>>
    /\ response[r].details = validateErrors
    /\ response[r].raw = outputObjOf[r]

\* a member listed before details in the schema has a value of another type
\* than string
FaultBeforeDetails(o) ==
    \E f \in {S_prompt, S_negative_prompt, S_style, S_lighting, S_camera} :
        Get(o, f) # Undefined /\ Get(o, f).k # "string"

(***************************************************************************)
(* C6 as stated: every parsed object that lacks a required field (prompt,  *)
(* params, or subject in a details object) fails validation with a         *)
(* violation naming that field; the request ends in                        *)
(* Failed(SchemaViolation), never in Completed, and no default is filled   *)
(* in for the field.                                                       *)
(***************************************************************************)
C6_EachMissingNamed ==
    \A r \in Reqs :
        (Responded(r) /\ outputObjOf[r] # Undefined) =>
            \A f \in MissingFields(outputObjOf[r]) :
                /\ SchemaViolation(r)
                /\ Names(response[r].details, f)
                /\ FieldOf(response[r].raw, f) = Undefined

(***************************************************************************)
(* C6 as amended: every parsed object that lacks a required field fails    *)
(* validation, and the request ends in Failed(SchemaViolation), never in   *)
(* Completed, with the object as it was parsed (no default filled in).     *)
(* Validation stops at the first violation, so one violation is reported:  *)
(* it names prompt when prompt is missing, params when only params is      *)
(* missing of the two, and subject when neither is missing and no member   *)
(* before details has a wrong type.                                        *)
(***************************************************************************)
C6_MissingFieldFails ==
    \A r \in Reqs :
        (/\ Responded(r)
         /\ outputObjOf[r] # Undefined
         /\ MissingFields(outputObjOf[r]) # {}) =>
            LET o == outputObjOf[r]
                missing == MissingFields(o)
                errors == response[r].details
            IN  /\ SchemaViolation(r)
                /\ ~Completed(r)
                /\ Len(errors) = 1
                /\ \A f \in missing : FieldOf(response[r].raw, f) = Undefined
                /\ S_prompt \in missing => Names(errors, S_prompt)
                /\ (S_params \in missing /\ S_prompt \notin missing)
                       => Names(errors, S_params)
                /\ (missing = {S_subject} /\ ~FaultBeforeDetails(o))
                       => /\ Names(errors, S_subject)
                          /\ errors[1].instancePath = <<S_details>>

\* C6's case: a parsed object with its prompt and its params whose details
\* lack subject, refused with the violation naming subject
C6_Witness ==
    \E r \in Reqs :
        /\ Responded(r)
        /\ outputObjOf[r] # Undefined
        /\ MissingFields(outputObjOf[r]) = {S_subject}
        /\ Get(Get(outputObjOf[r], S_details), S_background) # Undefined
        /\ SchemaViolation(r)
        /\ Names(response[r].details, S_subject)

(***************************************************************************)
(* C7: every request whose sanitized prompt is empty ends in               *)
(* Failed(EmptyPrompt), and no provider call is made in it, whether or not *)
(* the credential is configured.                                           *)
(***************************************************************************)
C7_EmptyPromptFirst ==
    \A r \in Reqs :
        (/\ reqBody[r] # Undefined
         /\ sanitizeInput(Get(reqBody[r], S_prompt)) = <<>>) =>
            /\ FailedWith(r, 400, "Empty prompt")
            /\ providerCalls[r] = 0
            /\ providerReply[r] = NoReply

\* C7's case: a prompt of white space only, no credential configured, and
\* the request refused for its prompt
C7_Witness ==
    \E r \in Reqs :
        /\ OPENAI_KEY = Undefined
        /\ reqBody[r] # Undefined
        /\ Get(reqBody[r], S_prompt) = Str(<<SPACE>>)
        /\ FailedWith(r, 400, "Empty prompt")
        /\ providerCalls[r] = 0

\* every field the schema lists has its schema type in o
RECURSIVE Conforms(_, _)
Conforms(schema, o) ==
    /\ o.k \in schema.types
    /\ o.k = "object" =>
           /\ \A j \in 1..Len(schema.required) :
                  Get(o, schema.required[j]) # Undefined
           /\ \A j \in 1..Len(schema.properties) :
                  LET v == Get(o, schema.properties[j].name)
                  IN  v # Undefined => Conforms(schema.properties[j].schema, v)

(***************************************************************************)
(* C8 as stated: every Completed result is schema-conformant after the     *)
(* engine override (prompt a string, params an object, every field the     *)
(* schema lists of its schema type, params.engine included), for every     *)
(* request body, one whose engine value is not a string included.          *)
(***************************************************************************)
C8_CompletedConforms ==
    \A r \in Reqs :
        Completed(r) =>
            /\ Get(response[r].result, S_prompt).k = "string"
            /\ Get(response[r].result, S_params).k = "object"
            /\ EngineOf(response[r].result).k = "string"
            /\ Conforms(jsonSchema, response[r].result)

\* what the handler knows of request r when it answers
PromptEmpty(r) == sanitizeInput(Get(reqBody[r], S_prompt)) = <<>>
NoCredential == ~Truthy(OPENAI_KEY)
ProviderRefused(r) == providerReply[r].st = "text"
Decoded(r) == providerReply[r].st = "data"
ContentOf(r) == rawTextOf(providerReply[r].data)
NoContent(r) == Decoded(r) /\ ContentOf(r) \in Falsy
HasText(r) == Decoded(r) /\ ContentOf(r).k = "string" /\ ContentOf(r).s # <<>>
NoObject(r) == HasText(r) /\ ~extractJSON(ContentOf(r).s).found
Unparseable(r) ==
    /\ HasText(r)
    /\ extractJSON(ContentOf(r).s).found
    /\ ~ParseJSON(extractJSON(ContentOf(r).s).s).ok
Violations(r) ==
    /\ HasText(r)
    /\ extractJSON(ContentOf(r).s).found
    /\ ParseJSON(extractJSON(ContentOf(r).s).s).ok
    /\ ~Conforms(jsonSchema, ParseJSON(extractJSON(ContentOf(r).s).s).val)

\* the seven failures as the caller sees them: status and error text
SevenKinds ==
    {<<400, "Empty prompt">>,
     <<500, "Server misconfigured: missing OPENAI API key">>,
     <<502, "AI provider error">>,
     <<502, "No response from AI provider">>,
     <<502, "AI did not return JSON">>,
     <<502, "AI returned invalid JSON">>,
     <<502, "Generated JSON failed validation">>}

FailsNow(r) == ~Responded(r) /\ pc'[r] = "done" /\ ~response'[r].ok

(***************************************************************************)
(* C10: in every request the provider is called at most once; after a      *)
(* failure (provider error, empty response, no JSON found, invalid JSON,   *)
(* schema violation) the request ends at once in that failure, and no      *)
(* further provider call, retry or repair step follows.                    *)
(***************************************************************************)
C10_NoRetry ==
    [][\A r \in Reqs :
           \* at most one call, made when the request is received
           /\ providerCalls'[r] <= 1
           /\ providerCalls'[r] # providerCalls[r] => pc[r] = "idle"
           \* a provider error is answered by the next step of the request
           /\ (providerReply[r].st = "status" /\ ~providerReply[r].ok
               /\ pc'[r] # pc[r]) => FailsNow(r)
           \* what the provider's body shows is answered in the same step
           /\ (pc[r] = "json" /\ pc'[r] # pc[r]) => pc'[r] = "done"
           \* nothing follows an answer
           /\ Responded(r) =>
                  /\ pc'[r] = pc[r]
                  /\ response'[r] = response[r]
                  /\ providerCalls'[r] = providerCalls[r]
                  /\ providerReply'[r] = providerReply[r]
                  /\ outputObjOf'[r] = outputObjOf[r]]_vars

\* C10's case: a request that failed after its one provider call
C10_Witness ==
    \E r \in Reqs :
        /\ Responded(r)
        /\ providerCalls[r] = 1
        /\ response[r].status = 502
        /\ providerReply[r].st \in {"text", "data"}

\* what extractJSON and JSON.parse give for the text the provider sent
CandidateOf(r) == extractJSON(ContentOf(r).s)
ParsedOf(r) == ParseJSON(CandidateOf(r).s)

\* request r went through every stage of the pipeline
PassedAll(r) ==
    /\ ~PromptEmpty(r)
    /\ userPromptOf[r] # <<>>
    /\ providerCalls[r] = 1
    /\ providerReply[r].ok
    /\ HasText(r)
    /\ CandidateOf(r).found
    /\ ParsedOf(r).ok
    /\ outputObjOf[r] = ParsedOf(r).val
    /\ Conforms(jsonSchema, outputObjOf[r])
    /\ EngineOf(response[r].result) = enginePrefOf[r]

\* the stages are passed in their order: the provider is called for a prompt
\* that is not empty, its body is awaited after its success status, and the
\* ok result is sent by the step that extracts, parses, validates and
\* overrides
StagesInOrder(r) ==
    /\ (pc[r] # "fetch" /\ pc'[r] = "fetch") =>
           (pc[r] = "idle" /\ userPromptOf'[r] # <<>>)
    /\ (pc[r] # "json" /\ pc'[r] = "json") =>
           (pc[r] = "fetch" /\ providerReply'[r].ok)
    /\ (~response[r].ok /\ response'[r].ok) =>
           (pc[r] = "json" /\ pc'[r] = "done")

(***************************************************************************)
(* C11: a request yields {ok: true, result} only in Completed, and         *)
(* Completed is reached only after, in this order, a non-empty sanitized   *)
(* prompt, a successful provider response with text, a successful          *)
(* extraction, parse and validation, and the engine override; no failure   *)
(* carries an ok result.                                                   *)
(***************************************************************************)
C11_OnlyCompletedYields ==
    /\ [](\A r \in Reqs :
             /\ (response[r].ok \/ response[r].result # Undefined) =>
                    (Completed(r) /\ PassedAll(r))
             /\ Completed(r) => (response[r].ok /\ PassedAll(r))
             /\ (Responded(r) /\ ~Completed(r)) =>
                    (~response[r].ok /\ response[r].result = Undefined
                     /\ response[r].status >= 400))
    /\ [][\A r \in Reqs : StagesInOrder(r)]_vars

\* C11's case: a completed request, the object found inside other text
C11_Witness ==
    \E r \in Reqs :
        /\ Completed(r)
        /\ PassedAll(r)
        /\ Len(CandidateOf(r).s) < Len(ContentOf(r).s)
        /\ response[r].result # Undefined

\* the text has white space at neither end
Trimmed(t) ==
    t = <<>> \/ (t[1] \notin WhiteSpace /\ t[Len(t)] \notin WhiteSpace)

(***************************************************************************)
(* C12 as stated: for every input, sanitizeInput returns a trimmed text    *)
(* (white space at neither end) of at most 800 code units, and the empty   *)
(* text for an input that is absent, not a text, or empty.                 *)
(***************************************************************************)
C12_TrimmedAndCapped ==
    sanPc = "done" =>
        /\ Trimmed(sanOut)
        /\ Len(sanOut) <= 800
        /\ (sanIn.k # "string" \/ sanIn = Str(<<>>)) => sanOut = <<>>

\* the response to a request handled alone: what its body, the credential
\* and the provider's reply to it give, the validator fresh
Alone(body, key, reply) ==
    LET h == handleRequest(body, key)
    IN  IF h.next = "done" THEN h.resp
        ELSE IF reply.st = "failed" THEN ServerError
        ELSE IF reply.st = "text" THEN afterText(reply.txt).resp
        ELSE afterJson(reply.data, h.enginePref, <<>>).resp

(***************************************************************************)
(* C13: under every interleaving of concurrent requests, the outcome of a  *)
(* request depends only on its own body, the credential and its own        *)
(* provider response; the violations reported in Failed(SchemaViolation)   *)
(* are those computed for that request's object, although the validator    *)
(* and its errors field are shared.                                        *)
(***************************************************************************)
C13_RequestsIndependent ==
    \A r \in Reqs :
        Responded(r) =>
            /\ response[r] = Alone(reqBody[r], OPENAI_KEY, providerReply[r])
            /\ response[r].error = "Generated JSON failed validation" =>
                   /\ response[r].details = validateJSON(ParsedOf(r).val)
                   /\ response[r].raw = ParsedOf(r).val

\* C13's case: two requests refused for different violations, the errors
\* field holding those of the other one
C13_Witness ==
    /\ \A r \in Reqs :
           /\ Responded(r)
           /\ response[r].error = "Generated JSON failed validation"
    /\ response["r1"].details # response["r2"].details
    /\ response["r1"].details # validateErrors
    /\ response["r1"].details = validateJSON(ParsedOf("r1").val)

(***************************************************************************)
(* C14: every request with a non-empty sanitized prompt received while no  *)
(* provider credential is configured ends in Failed(Misconfigured), a      *)
(* server fault, and no provider call is made in it.                       *)
(***************************************************************************)
C14_MissingCredential ==
    \A r \in Reqs :
        (/\ reqBody[r] # Undefined
         /\ ~PromptEmpty(r)
         /\ OPENAI_KEY \in {Undefined, Str(<<>>)}) =>
            /\ FailedWith(r, 500,
                          "Server misconfigured: missing OPENAI API key")
            /\ providerCalls[r] = 0
            /\ providerReply[r] = NoReply

\* C14's case: a prompt with text in it, the credential set but empty, and
\* the request refused as misconfigured
C14_Witness ==
    \E r \in Reqs :
        /\ OPENAI_KEY = Str(<<>>)
        /\ reqBody[r] # Undefined
        /\ Get(reqBody[r], S_prompt) = Str(<<SPACE, "a", SPACE>>)
        /\ userPromptOf[r] = <<"a">>
        /\ FailedWith(r, 500, "Server misconfigured: missing OPENAI API key")
        /\ providerCalls[r] = 0

\* the provider call of request r failed without delivering a response
Unreachable(r) ==
    providerReply[r].st = "failed" /\ providerReply[r].at = "fetch"

(***************************************************************************)
(* C15 as stated: when the provider is unreachable (the provider call      *)
(* fails without delivering any response), the request ends in             *)
(* Failed(Misconfigured).                                                  *)
(***************************************************************************)
C15_UnreachableMisconfigured ==
    \A r \in Reqs :
        Unreachable(r) =>
            FailedWith(r, 500, "Server misconfigured: missing OPENAI API key")

(***************************************************************************)
(* C15 as amended: when the provider is unreachable, the request ends in   *)
(* the generic server fault, 500 with the error text "Server error" and    *)
(* nothing else; Failed(Misconfigured) is the answer to a missing          *)
(* credential only.                                                        *)
(***************************************************************************)
C15_UnreachableServerError ==
    \A r \in Reqs :
        /\ Unreachable(r) =>
               /\ FailedWith(r, 500, "Server error")
               /\ response[r].detail = Undefined
               /\ response[r].raw = Undefined
               /\ response[r].details = <<>>
               /\ providerCalls[r] = 1
        /\ (Responded(r)
            /\ response[r].error
                   = "Server misconfigured: missing OPENAI API key") =>
               (~Truthy(OPENAI_KEY) /\ providerCalls[r] = 0)

\* C15's case: a credential is configured, the provider was called and
\* could not be reached
C15_Witness ==
    \E r \in Reqs :
        /\ Truthy(OPENAI_KEY)
        /\ Unreachable(r)
        /\ providerCalls[r] = 1
        /\ FailedWith(r, 500, "Server error")

\* an unexpected fault was raised in the handler of request r: no request
\* body, a rejected await (the provider call, or the reading or decoding
\* of the provider's body), or a content extractJSON cannot scan
NoBody(r) == Responded(r) /\ reqBody[r] = Undefined
Rejected(r) == providerReply[r].st = "failed"
ExtractionFault(r) ==
    Decoded(r) /\ ContentOf(r) \notin Falsy /\ ContentOf(r).k # "string"
Faulted(r) == NoBody(r) \/ Rejected(r) \/ ExtractionFault(r)

\* the generic server fault: a fixed error text and nothing else
GenericFault ==
    [status |-> 500, ok |-> FALSE, error |-> "Server error",
     detail |-> Undefined, raw |-> Undefined, details |-> <<>>,
     result |-> Undefined]

(***************************************************************************)
(* C16: every unexpected fault raised at any step of the handler (missing  *)
(* request body, a provider call that throws, a provider body that cannot  *)
(* be decoded, a fault in extraction or enforcement) is caught at the      *)
(* handler boundary and ends the request in a generic server fault whose   *)
(* payload carries a fixed error text and no detail of the fault.          *)
(***************************************************************************)
C16_FaultsCaught ==
    \A r \in Reqs :
        /\ Faulted(r) => (Responded(r) /\ response[r] = GenericFault)
        /\ (Responded(r) /\ response[r].error = "Server error") =>
               (Faulted(r) /\ response[r] = GenericFault)

\* C16's case: the provider's content is a number, which extractJSON
\* cannot scan, and the request ends in the generic fault
C16_Witness ==
    \E r \in Reqs :
        /\ ExtractionFault(r)
        /\ providerCalls[r] = 1
        /\ Responded(r)
        /\ response[r] = GenericFault

\* the reference algorithm for the object in a text: from the first opening
\* brace, the quotes not preceded by a backslash toggle inString, the braces
\* outside strings move depth, and the object ends at the first closing
\* brace that brings depth back to 0
ReferenceEnds(t, start) ==
    {j \in start..Len(t) :
        /\ t[j] = RBRACE
        /\ ~InStringAt(t, start, j)
        /\ DepthAt(t, start, j) = 0}
ReferenceExtract(t) ==
    LET start == FirstOf(t, LBRACE)
    IN  IF start = 0 THEN NotFound
        ELSE LET ends == ReferenceEnds(t, start)
             IN  IF ends = {} THEN NotFound
                 ELSE Found(SubSeq(t, start,
                          CHOOSE j \in ends : \A k \in ends : j <= k))

(***************************************************************************)
(* C17: for every input text over a bounded alphabet containing the two    *)
(* braces, the quote, the backslash and an ordinary character, extractJSON *)
(* returns the same result as the four-step reference algorithm: start at  *)
(* the first opening brace, toggle inString on each quote whose preceding  *)
(* character is not a backslash, change depth on braces only when not in a *)
(* string, return the substring through the closing brace at which depth   *)
(* returns to 0, else not-found.                                           *)
(***************************************************************************)
C17_MatchesReference ==
    ScanDone => result = ReferenceExtract(text)

\* C17's case: a scanned text with a quoted brace, a quote after a
\* backslash and an object found before the end of the text
C17_Witness ==
    /\ ScanDone
    /\ result.found
    /\ Len(result.s) < Len(text)
    /\ \E k \in 2..Len(result.s) :
           result.s[k] = QUOTE /\ result.s[k - 1] = BSLASH
    /\ \E k \in 1..Len(result.s) :
           result.s[k] = RBRACE /\ k < Len(result.s)
    /\ result = ReferenceExtract(text)

\* the members of an object other than the one of that key, in their order,
\* and the keys of an object in their order
Without(o, key) == SelectSeq(o.m, LAMBDA x : x.key # key)
KeysOf(o) == [j \in 1..Len(o.m) |-> o.m[j].key]

\* object a is object b but for params.engine: the same members in the
\* same order at the top, the same values outside params, and in params
\* the same members but for engine
SameButEngine(a, b) ==
    /\ a.k = "object" /\ b.k = "object"
    /\ KeysOf(a) = KeysOf(b)
    /\ Without(a, S_params) = Without(b, S_params)
    /\ Get(a, S_params).k = "object" /\ Get(b, S_params).k = "object"
    /\ Without(Get(a, S_params), S_engine)
           = Without(Get(b, S_params), S_engine)

(***************************************************************************)
(* C18: in every Completed request the returned ImageSpec equals the       *)
(* object parsed from the extracted candidate in every field other than    *)
(* params.engine: between successful validation and the response the      *)
(* object is changed exactly once, by the engine override, and nothing     *)
(* else is added, removed or rewritten.                                    *)
(***************************************************************************)
C18_OnlyEngineChanged ==
    \A r \in Reqs :
        Completed(r) =>
            /\ CandidateOf(r).found /\ ParsedOf(r).ok
            /\ SameButEngine(response[r].result, ParsedOf(r).val)
            /\ EngineOf(response[r].result) = enginePrefOf[r]

\* C18's case: a Completed request whose parsed object has a details
\* member, and a member next to engine in params; its engine was replaced
C18_Witness ==
    \E r \in Reqs :
        /\ Completed(r)
        /\ Get(ParsedOf(r).val, S_details) # Undefined
        /\ Get(Get(ParsedOf(r).val, S_params), S_seed) # Undefined
        /\ EngineOf(ParsedOf(r).val) # EngineOf(response[r].result)
        /\ SameButEngine(response[r].result, ParsedOf(r).val)

\* request r has arrived; a response to it has been sent
Arrived(r) == pc[r] \in {"fetch", "text", "json", "done"}
Sent(r) == response[r] # NoResponse

\* a terminal outcome: Completed, or one Failed kind
Outcome(resp) ==
    \/ resp.ok /\ resp.status = 200 /\ resp.result # Undefined
    \/ ~resp.ok /\ resp.status \in {400, 500, 502} /\ resp.error # ""
          /\ resp.result = Undefined

\* a step sends a response to r only when none was sent, and ends the
\* handler; after the response nothing of r changes any more
OneResponse(r) ==
    /\ response'[r] # response[r] =>
           (~Sent(r) /\ pc'[r] = "done" /\ Outcome(response'[r]))
    /\ Sent(r) =>
           /\ response'[r] = response[r]
           /\ pc'[r] = pc[r]
           /\ providerCalls'[r] = providerCalls[r]
           /\ providerReply'[r] = providerReply[r]
           /\ outputObjOf'[r] = outputObjOf[r]

(***************************************************************************)
(* C19: every request ends in exactly one terminal outcome: provided the   *)
(* provider call eventually returns a response or fails, the handler       *)
(* eventually sends exactly one response (Completed or one Failed kind),   *)
(* and after a response is sent no later step of the pipeline runs and no  *)
(* second response is sent.                                                *)
(***************************************************************************)
C19_OneTerminalOutcome ==
    /\ \A r \in Reqs : Arrived(r) ~> (Sent(r) /\ Outcome(response[r]))
    /\ [](\A r \in Reqs : Sent(r) <=> pc[r] = "done")
    /\ [][\A r \in Reqs : OneResponse(r)]_vars

\* C19's case: the provider refused, its error text was read, and the
\* request has its one response
C19_Witness ==
    \E r \in Reqs :
        /\ providerReply[r].st = "text"
        /\ providerCalls[r] = 1
        /\ pc[r] = "done"
        /\ Sent(r)
        /\ Outcome(response[r])

\* the last position the scan of t examined: the end of the result, or the
\* end of the text when nothing was returned
LastExamined(t, res) ==
    IF res.found THEN indexOf(t, LBRACE) + Len(res.s) - 1 ELSE Len(t)

(***************************************************************************)
(* C20: during every scan of extractJSON, depth is at least 1 after each   *)
(* character examined without returning and is never negative; hence every *)
(* non-null result is a contiguous substring of the input that begins at   *)
(* the first opening brace of the text and ends with a closing brace.      *)
(***************************************************************************)
C20_DepthPositive ==
    (ScanDone /\ indexOf(text, LBRACE) # 0) =>
        LET start == indexOf(text, LBRACE)
            last == LastExamined(text, result)
        IN  /\ \A i \in start..last :
                   /\ stateAfter(text, start, i).depth >= 0
                   /\ (~result.found \/ i < last) =>
                          stateAfter(text, start, i).depth >= 1
            /\ result.found =>
                   /\ start = FirstOf(text, LBRACE)
                   /\ last <= Len(text)
                   /\ result.s = SubSeq(text, start, last)
                   /\ result.s[1] = LBRACE
                   /\ result.s[Len(result.s)] = RBRACE

\* C20's case: a scan that began after the start of the text, passed a
\* quoted closing brace and returned before the end of the text
C20_Witness ==
    /\ ScanDone
    /\ result.found
    /\ LastExamined(text, result) < Len(text)
    /\ \E i \in indexOf(text, LBRACE)..LastExamined(text, result) :
           /\ stateAfter(text, indexOf(text, LBRACE), i).inString
           /\ text[i] = RBRACE
    /\ indexOf(text, LBRACE) > 1
    /\ result.s[Len(result.s)] = RBRACE


=============================================================================
